---- MODULE Spec2Model ----
(***************************************************************************)
(* KernelComm (spyder/plugins/ipythonconsole/comms/kernelcomm.py): the     *)
(* frontend side of the comm with a kernel.  One KernelComm object bound   *)
(* to one kernel client object.  Everything runs on the Qt thread; the     *)
(* only suspension point is wait_loop.exec_() inside _wait, during which   *)
(* any other handler of the object may run (and may start a nested wait).  *)
(* A model state is a state between two handlers: every frame of `stack`   *)
(* is a _wait call suspended inside wait_loop.exec_().                     *)
(*                                                                         *)
(* CommBase (spyder_kernels.comms.commbase) is the library base class: its *)
(* call registration, _send_message, reply handling and comm table are     *)
(* modelled as the methods of KernelComm use them.                         *)
(*                                                                         *)
(* Specifications:                                                         *)
(*   Spec      every handler, a local kernel, the bounds as written        *)
(*   SpecWide  as Spec, with one more comm and one more blocking call      *)
(*   SpecPort  the handlers that read or write the comm port state         *)
(*             (remote_comm_port, client.comm_port, client.comm_channel),  *)
(*             for a local kernel and for one behind an ssh tunnel, with    *)
(*             remove and a comm_channel_manager scope used on its own;     *)
(*             no call is in flight                                         *)
(*   SpecError the relay of remote errors (_async_error)                   *)
(*   SpecFair  Spec with the timer of a wait firing and the loop of _wait  *)
(*             going on                                                     *)
(***************************************************************************)
EXTENDS Integers, Sequences, FiniteSets, TLC

\* ---------------------------------------------------------------- bounds
MaxComms == 1      \* comms ever opened under Spec (comm ids 1..MaxComms)
MaxCalls == 1      \* blocking calls ever issued under Spec (call ids 1..MaxCalls)
MaxDepth == 1      \* nested _wait event loops
MaxLines == 4      \* lines of a formatted remote error

\* advertised comm ports, and the local ports select_random_ports may return
Ports == {5555, 6000}
LocalPorts == {7001, 7002}

\* Python's None, also used for "attribute not set"
None == 0
\* the lane value of kernel_client.shell_channel; a comm channel is named by
\* the port its socket is connected to
shell_channel == 0

\* the lines error_wrapper.format_error() may return, and the wrappers, each
\* taken as the list of its formatted lines
Lines == {"Traceback", "File", "ValueError"}
Wrappers == UNION {[1..n -> Lines] : n \in 0..MaxLines}

\* the ids of the widest specification
CommIds == 1..(MaxComms + 1)
CallIds == 1..(MaxCalls + 1)

VARIABLES
    kernel_client,      \* "None" before open_comm, then "client"
    ssh_parameters,     \* hasattr(client, 'ssh_parameters')
    alive,              \* kernel_client.is_alive()
    remote_comm_port,   \* self.remote_comm_port
    comm_port,          \* client.comm_port (None: attribute not set)
    comm_channel,       \* client.comm_channel (None or a lane)
    comms,              \* self._comms in insertion order: <<[id, chan]>>
    nextComm,           \* next fresh comm id
    nextCall,           \* next fresh call id
    reply_waitlist,     \* self._reply_waitlist (ids of registered calls)
    reply_inbox,        \* self._reply_inbox (ids of calls with a reply)
    awaiting,           \* calls whose message went out and whose reply is due
    stack,              \* _wait calls suspended in wait_loop.exec_(), outermost first
    subs,               \* live connections to wait_loop.quit: [reply, died]
    last                \* what the last handler did (observation only)

vars == <<kernel_client, ssh_parameters, alive, remote_comm_port, comm_port,
          comm_channel, comms, nextComm, nextCall, reply_waitlist,
          reply_inbox, awaiting, stack, subs, last>>

client_vars == <<kernel_client, ssh_parameters>>
port_vars == <<remote_comm_port, comm_port, comm_channel>>
call_vars == <<nextCall, reply_waitlist, reply_inbox, awaiting>>
wait_vars == <<stack, subs>>

\* ------------------------------------------------------------ observation
\* op: the handler that ran last; outcome: how it ended ("returned", an
\* exception name, "dropped"/"swallowed" for a logged failure, "waiting");
\* wait: how _wait ended, if it ran; built/events: the channels the last
\* _set_comm_port built and the _sig_comm_port_changed signals it emitted;
\* port: the argument of _set_comm_port when it was run on its own;
\* emitted: the sig_exception_occurred signals the last _async_error emitted
NoReport ==
    [op |-> "init", outcome |-> "returned", wait |-> "none",
     port |-> None, built |-> 0, events |-> 0, emitted |-> <<>>]

Report(op) == [NoReport EXCEPT !.op = op]

\* ------------------------------------------------------------ CommBase helpers
Registered(cs) == {cs[i].id : i \in DOMAIN cs}

get_comm_id_list(cs, comm_id) ==
    IF comm_id = None THEN [i \in DOMAIN cs |-> cs[i].id] ELSE <<comm_id>>

is_open(cs, comm_id) ==
    IF comm_id = None THEN Len(cs) > 0 ELSE comm_id \in Registered(cs)

ChanOf(cs, id) == cs[CHOOSE i \in DOMAIN cs : cs[i].id = id].chan

\* the messages comm.send puts on the lane each comm is bound to
Msgs(cs, type, ids) ==
    [k \in DOMAIN ids |-> [type |-> type, comm |-> ids[k], lane |-> ChanOf(cs, ids[k])]]

\* CommBase._send_message: CommError when the comm is not open
_send_message(cs, type, comm_id) ==
    IF is_open(cs, comm_id)
    THEN [err |-> FALSE, sent |-> Msgs(cs, type, get_comm_id_list(cs, comm_id))]
    ELSE [err |-> TRUE, sent |-> <<>>]

comm_channel_connected == comm_channel # None

\* the comm_id arguments a caller can hold: None (every comm) or the id of
\* a comm that was opened (it may have been removed since)
KnownTargets == {None} \cup 1..(nextComm - 1)

InitAny ==
    /\ kernel_client = "None"
    /\ alive = TRUE
    /\ remote_comm_port = None
    /\ comm_port = None
    /\ comm_channel = None
    /\ comms = <<>>
    /\ nextComm = 1
    /\ nextCall = 1
    /\ reply_waitlist = {}
    /\ reply_inbox = {}
    /\ awaiting = {}
    /\ stack = <<>>
    /\ subs = [reply |-> 0, died |-> 0]
    /\ last = NoReport

\* a local kernel: the client has no ssh_parameters
Init == InitAny /\ ssh_parameters = FALSE

\* a local kernel, or a remote one reached through an ssh tunnel
InitPort == InitAny /\ ssh_parameters \in BOOLEAN

\* ------------------------------------------------------------ lifecycle
\* open_comm(kernel_client): clears the comm channel and registers a new comm
\* (bound to the shell channel); the comm_open message goes out on the shell.
open_comm(max_comms) ==
    /\ nextComm <= max_comms
    /\ kernel_client' = "client"
    /\ comm_channel' = None
    /\ comms' = Append(comms, [id |-> nextComm, chan |-> shell_channel])
    /\ nextComm' = nextComm + 1
    /\ last' = Report("open_comm")
    /\ UNCHANGED <<ssh_parameters, alive, remote_comm_port, comm_port>>
    /\ UNCHANGED <<call_vars, wait_vars>>

\* ------------------------------------------------------------ comm port
\* _set_comm_port without line 60 (the port it was given is not recorded)
_set_comm_port_unrecorded(port, tunnel_ok, local_port) ==
    LET same == [rcp |-> remote_comm_port, cp |-> comm_port, ch |-> comm_channel,
                 built |-> 0, events |-> 0, err |-> FALSE]
        resolved == IF ssh_parameters THEN local_port ELSE port
    IN  IF port = None \/ port = remote_comm_port
        THEN same
        ELSE IF ssh_parameters /\ ~tunnel_ok
        THEN [same EXCEPT !.err = TRUE]
        ELSE IF ~(comm_port # None /\ comm_port = resolved)
        THEN [rcp |-> remote_comm_port, cp |-> resolved, ch |-> resolved,
              built |-> 1, events |-> 1, err |-> FALSE]
        ELSE same

\* _set_comm_port with client.comm_port assigned before the tunnel is opened
_set_comm_port_port_first(port, tunnel_ok, local_port) ==
    LET same == [rcp |-> remote_comm_port, cp |-> comm_port, ch |-> comm_channel,
                 built |-> 0, events |-> 0, err |-> FALSE]
        resolved == IF ssh_parameters THEN local_port ELSE port
    IN  IF port = None \/ port = remote_comm_port
        THEN same
        ELSE IF ssh_parameters /\ ~tunnel_ok
        THEN [same EXCEPT !.rcp = port, !.cp = resolved, !.err = TRUE]
        ELSE IF ~(comm_port # None /\ comm_port = resolved)
        THEN [rcp |-> port, cp |-> resolved, ch |-> resolved,
              built |-> 1, events |-> 1, err |-> FALSE]
        ELSE [same EXCEPT !.rcp = port]

\* _set_comm_port(port).  tunnel_ok: whether ssh_tunnel returns (it raises
\* otherwise); local_port: what select_random_ports returns.  The result is
\* the new value of the fields it writes, with what it built and emitted.
_set_comm_port(port, tunnel_ok, local_port) ==
    LET same == [rcp |-> remote_comm_port, cp |-> comm_port, ch |-> comm_channel,
                 built |-> 0, events |-> 0, err |-> FALSE]
        resolved == IF ssh_parameters THEN local_port ELSE port
    IN  IF port = None \/ port = remote_comm_port
        THEN same
        ELSE IF ssh_parameters /\ ~tunnel_ok
        THEN [same EXCEPT !.rcp = port, !.err = TRUE]
        ELSE IF ~(comm_port # None /\ comm_port = resolved)
        THEN [rcp |-> port, cp |-> resolved, ch |-> resolved,
              built |-> 1, events |-> 1, err |-> FALSE]
        ELSE [same EXCEPT !.rcp = port]

\* the inputs of _set_comm_port that the environment decides
TunnelOutcomes == IF ssh_parameters THEN BOOLEAN ELSE {TRUE}
RandomPorts == IF ssh_parameters THEN LocalPorts ELSE {None}

\* shutdown_comm_channel(): a shutdown_request per registered comm on the
\* comm channel, which is then dropped
shutdown_comm_channel ==
    IF comm_channel # None
    THEN [sent |-> [k \in DOMAIN comms |->
                      [type |-> "shutdown_request", comm |-> comms[k].id,
                       lane |-> comm_channel]],
          ch |-> None]
    ELSE [sent |-> <<>>, ch |-> comm_channel]

\* _set_comm_port run on its own (the handler registered at line 48)
SetCommPort(port, tunnel_ok, local_port) ==
    LET r == _set_comm_port(port, tunnel_ok, local_port) IN
    /\ kernel_client = "client"
    /\ remote_comm_port' = r.rcp
    /\ comm_port' = r.cp
    /\ comm_channel' = r.ch
    /\ last' = [Report("_set_comm_port") EXCEPT
                   !.port = port, !.built = r.built, !.events = r.events,
                   !.outcome = IF r.err THEN "TunnelError" ELSE "returned"]
    /\ UNCHANGED <<client_vars, alive, comms, nextComm>>
    /\ UNCHANGED <<call_vars, wait_vars>>

\* a close that sends its comm_close messages before the shutdown
close_result_notice_first(comm_id) ==
    LET sd == shutdown_comm_channel
        ids == get_comm_id_list(comms, comm_id)
        ok == \A k \in DOMAIN ids : ids[k] \in Registered(comms)
    IN  [ch |-> sd.ch,
         sent |-> (IF ok THEN Msgs(comms, "comm_close", ids) ELSE <<>>) \o sd.sent,
         outcome |-> IF ok THEN "returned" ELSE "KeyError"]

\* close(comm_id): shutdown of the comm channel, then a comm_close sent
\* through each targeted comm (KeyError for an id that is not registered)
close_result(comm_id) ==
    LET sd == shutdown_comm_channel
        ids == get_comm_id_list(comms, comm_id)
        ok == \A k \in DOMAIN ids : ids[k] \in Registered(comms)
    IN  [ch |-> sd.ch,
         sent |-> sd.sent \o (IF ok THEN Msgs(comms, "comm_close", ids) ELSE <<>>),
         outcome |-> IF ok THEN "returned" ELSE "KeyError"]

close(comm_id) ==
    LET r == close_result(comm_id) IN
    /\ kernel_client = "client"
    /\ comm_channel' = r.ch
    /\ last' = [Report("close") EXCEPT !.outcome = r.outcome]
    /\ UNCHANGED <<client_vars, alive, remote_comm_port, comm_port,
                   comms, nextComm>>
    /\ UNCHANGED <<call_vars, wait_vars>>

\* a remove that clears the whole table whatever the id
remove_result_all(comm_id) ==
    [comms |-> <<>>, sent |-> <<>>,
     outcome |-> IF is_open(comms, comm_id) \/ comm_id = None
                 THEN "returned" ELSE "KeyError"]

\* remove(comm_id): del self._comms[id] for the targeted ids
remove_result(comm_id) ==
    LET ids == get_comm_id_list(comms, comm_id)
        gone == {ids[k] : k \in DOMAIN ids}
        ok == gone \subseteq Registered(comms)
    IN  [comms |-> IF ok THEN SelectSeq(comms, LAMBDA c : c.id \notin gone)
                         ELSE comms,
         sent |-> <<>>,
         outcome |-> IF ok THEN "returned" ELSE "KeyError"]

remove(comm_id) ==
    LET r == remove_result(comm_id) IN
    /\ kernel_client = "client"
    /\ comms' = r.comms
    /\ last' = [Report("remove") EXCEPT !.outcome = r.outcome]
    /\ UNCHANGED <<client_vars, alive, port_vars, nextComm>>
    /\ UNCHANGED <<call_vars, wait_vars>>

\* the heartbeat: is_alive() turns false and hb_channel.kernel_died is
\* emitted, which quits every wait loop connected to it
KernelDied ==
    /\ kernel_client = "client"
    /\ alive
    /\ alive' = FALSE
    /\ stack' = [i \in DOMAIN stack |-> [stack[i] EXCEPT !.quit = TRUE]]
    /\ last' = Report("kernel_died")
    /\ UNCHANGED <<client_vars, port_vars, comms, nextComm, call_vars, subs>>

\* the heartbeat is back (is_alive() is true again); no signal is emitted
KernelBack ==
    /\ kernel_client = "client"
    /\ ~alive
    /\ alive' = TRUE
    /\ last' = Report("kernel_back")
    /\ UNCHANGED <<client_vars, port_vars, comms, nextComm, call_vars, wait_vars>>

\* ------------------------------------------------------------ routing
\* self._comms[id]['comm']._send_channel = lane, for the ids in order; the
\* loop stops at the first id that is not in self._comms (KeyError)
RECURSIVE Rebind(_, _, _)
Rebind(cs, ids, lane) ==
    IF ids = <<>> THEN [comms |-> cs, err |-> FALSE]
    ELSE IF Head(ids) \notin Registered(cs) THEN [comms |-> cs, err |-> TRUE]
    ELSE Rebind([i \in DOMAIN cs |->
                    IF cs[i].id = Head(ids) THEN [cs[i] EXCEPT !.chan = lane]
                                            ELSE cs[i]],
                Tail(ids), lane)

\* an entry that does not look at the comm channel before rebinding
Enter_unchecked(cs, channel, comm_id, queue_message) ==
    LET ids == get_comm_id_list(cs, comm_id)
        rb == Rebind(cs, ids, channel)
    IN  IF queue_message THEN [status |-> "queued", comms |-> cs, ids |-> <<>>]
        ELSE IF rb.err THEN [status |-> "KeyError", comms |-> rb.comms, ids |-> <<>>]
        ELSE [status |-> "bound", comms |-> rb.comms, ids |-> ids]

\* comm_channel_manager up to its yield (lines 103-118): "queued" (no
\* rebinding), "not_connected" (CommError after a renegotiation request),
\* "KeyError" (an id of id_list is not registered), or "bound"
Enter(cs, channel, comm_id, queue_message) ==
    LET ids == get_comm_id_list(cs, comm_id)
        rb == Rebind(cs, ids, channel)
    IN  IF queue_message THEN [status |-> "queued", comms |-> cs, ids |-> <<>>]
        ELSE IF channel = None
        THEN [status |-> "not_connected", comms |-> cs, ids |-> <<>>]
        ELSE IF rb.err THEN [status |-> "KeyError", comms |-> rb.comms, ids |-> <<>>]
        ELSE [status |-> "bound", comms |-> rb.comms, ids |-> ids]

\* the finally clause of comm_channel_manager (lines 119-122)
Exit(cs, ids) == Rebind(cs, ids, shell_channel)

\* self.remote_call()._send_comm_config(): a non-blocking call without
\* interrupt to every comm, so it goes through _get_call_return_value in
\* queued mode; a dead kernel or a CommError is logged, not raised
Renegotiate(cs, is_alive) ==
    LET s == _send_message(cs, "_send_comm_config", None) IN
    IF ~is_alive THEN [sent |-> <<>>, logs |-> 1]
    ELSE [sent |-> s.sent, logs |-> IF s.err THEN 1 ELSE 0]

\* "with self.comm_channel_manager(comm_id, queue_message): pass", the scope
\* on its own: inside/comms are the bindings in the body and after the
\* scope, body whether the body ran
comm_channel_manager(comm_id, queue_message) ==
    LET en == Enter(comms, comm_channel, comm_id, queue_message)
        rn == Renegotiate(comms, alive)
        ex == Exit(en.comms, en.ids)
        base == [status |-> en.status, body |-> FALSE, inside |-> en.comms,
                 comms |-> en.comms, reneg |-> 0, sent |-> <<>>, logs |-> 0,
                 outcome |-> "returned"]
    IN  IF en.status = "not_connected"
        THEN [base EXCEPT !.reneg = 1, !.sent = rn.sent, !.logs = rn.logs,
                          !.outcome = "CommError"]
        ELSE IF en.status = "KeyError"
        THEN [base EXCEPT !.outcome = "KeyError"]
        ELSE [base EXCEPT !.body = TRUE, !.comms = ex.comms,
                          !.outcome = IF ex.err THEN "KeyError" ELSE "returned"]

ChannelScope(comm_id, queue_message) ==
    LET r == comm_channel_manager(comm_id, queue_message) IN
    /\ kernel_client = "client"
    /\ comms' = r.comms
    /\ last' = [Report("comm_channel_manager") EXCEPT !.outcome = r.outcome]
    /\ UNCHANGED <<client_vars, alive, port_vars, nextComm>>
    /\ UNCHANGED <<call_vars, wait_vars>>

Frame(call, ids, msg) ==
    [call |-> call, ids |-> ids, msg |-> msg, timer |-> TRUE, quit |-> FALSE]

\* ------------------------------------------------------------ outgoing calls
\* the liveness check left out
kernel_dead_unchecked == FALSE

\* line 181: not self.kernel_client.is_alive()
kernel_dead == ~alive

\* the check of the comm channel left out
interrupt_lost_unchecked(want) == FALSE

\* line 196: interrupt and not self.comm_channel_connected()
interrupt_lost(want) == want /\ ~comm_channel_connected

\* what _get_call_return_value does up to its return, its raise or the first
\* wait_loop.exec_() of _wait.  alive2 is is_alive() as _wait reads it (the
\* heartbeat thread may have changed it since line 181).
\*  sent/logs: the messages sent and the failures logged (logger.info), those
\*  of the renegotiation request included; reneg: renegotiation requests
_get_call_return_value(comm_id, blocking, interrupt, alive2) ==
    LET call == IF blocking THEN nextCall ELSE None
        wl == IF blocking THEN reply_waitlist \cup {nextCall} ELSE reply_waitlist
        want == interrupt \/ blocking
        lost == interrupt_lost(want)
        rn == Renegotiate(comms, TRUE)
        queued == ~want \/ lost
        en == Enter(comms, comm_channel, comm_id, queued)
        snd == _send_message(en.comms, "remote_call", comm_id)
        ex == Exit(en.comms, en.ids)
        base == [outcome |-> "returned", wait |-> "none", sent |-> <<>>,
                 reneg |-> 0, logs |-> 0, rlogs |-> 0, comms |-> comms,
                 push |-> FALSE, alive |-> alive, queued |-> FALSE,
                 ids |-> <<>>, waitlist |-> wl, call |-> call]
    IN  IF kernel_dead
        THEN IF blocking THEN [base EXCEPT !.outcome = "KernelDead"]
                         ELSE [base EXCEPT !.outcome = "dropped", !.logs = 1]
        ELSE IF lost /\ blocking
        THEN [base EXCEPT !.outcome = "CommError", !.reneg = 1,
                          !.sent = rn.sent, !.rlogs = rn.logs]
        ELSE LET b2 == [base EXCEPT !.reneg = IF lost THEN 1 ELSE 0,
                                    !.sent = IF lost THEN rn.sent ELSE <<>>,
                                    !.rlogs = IF lost THEN rn.logs ELSE 0,
                                    !.queued = queued]
        IN   IF en.status = "KeyError"
             THEN [b2 EXCEPT !.outcome = "KeyError"]
             ELSE IF en.status = "not_connected"
             THEN [b2 EXCEPT !.reneg = @ + 1, !.sent = @ \o rn.sent,
                             !.rlogs = @ + rn.logs,
                             !.logs = IF blocking THEN 0 ELSE 1,
                             !.outcome = IF blocking THEN "CommError"
                                                     ELSE "swallowed"]
             ELSE IF snd.err
             THEN IF blocking
                  THEN [b2 EXCEPT !.outcome = "CommError", !.comms = ex.comms]
                  ELSE [b2 EXCEPT !.outcome = "swallowed", !.comms = ex.comms,
                                  !.logs = 1]
             ELSE IF ~blocking
             THEN [b2 EXCEPT !.sent = @ \o snd.sent, !.comms = ex.comms]
             ELSE IF ~alive2
             THEN [b2 EXCEPT !.sent = @ \o snd.sent, !.comms = ex.comms,
                             !.alive = alive2, !.wait = "KernelDead",
                             !.outcome = "KernelDead"]
             ELSE [b2 EXCEPT !.sent = @ \o snd.sent, !.comms = en.comms,
                             !.ids = en.ids, !.push = TRUE,
                             !.outcome = "waiting", !.wait = "waiting"]

\* remote_call(...).<name>(...): the call is registered (blocking calls go
\* to the reply waitlist) and handed to _get_call_return_value
RemoteCall(comm_id, blocking, interrupt, alive2, max_calls) ==
    LET r == _get_call_return_value(comm_id, blocking, interrupt, alive2)
        sentcall == \E k \in DOMAIN r.sent : r.sent[k].type = "remote_call"
    IN
    /\ kernel_client = "client"
    /\ blocking => nextCall <= max_calls /\ Len(stack) < MaxDepth
    /\ nextCall' = IF blocking THEN nextCall + 1 ELSE nextCall
    /\ reply_waitlist' = r.waitlist
    /\ awaiting' = IF blocking /\ sentcall THEN awaiting \cup {r.call} ELSE awaiting
    /\ comms' = r.comms
    /\ alive' = r.alive
    /\ stack' = IF r.push THEN Append(stack, Frame(r.call, r.ids, r.waitlist))
                          ELSE stack
    /\ subs' = IF r.push THEN [reply |-> subs.reply + 1, died |-> subs.died + 1]
                         ELSE subs
    /\ last' = [Report("remote_call") EXCEPT
                   !.outcome = r.outcome, !.wait = r.wait]
    /\ UNCHANGED <<client_vars, port_vars, nextComm, reply_inbox>>

\* ------------------------------------------------------------ the wait loop
Top == stack[Len(stack)]

\* a reply comes in: _handle_remote_call_reply moves the call from the
\* waitlist to the inbox and emits _sig_got_reply
ReplyArrives(c) ==
    /\ c \in awaiting
    /\ awaiting' = awaiting \ {c}
    /\ reply_waitlist' = reply_waitlist \ {c}
    /\ reply_inbox' = IF c \in reply_waitlist THEN reply_inbox \cup {c}
                                              ELSE reply_inbox
    /\ stack' = [i \in DOMAIN stack |-> [stack[i] EXCEPT !.quit = TRUE]]
    /\ last' = Report("reply")
    /\ UNCHANGED <<client_vars, alive, port_vars, comms, nextComm, nextCall, subs>>

\* the single-shot timer of frame i fires: it is no longer active and quits
\* its loop
TimerFires(i) ==
    /\ i \in DOMAIN stack
    /\ stack[i].timer
    /\ stack' = [stack EXCEPT ![i].timer = FALSE, ![i].quit = TRUE]
    /\ last' = Report("timeout")
    /\ UNCHANGED <<client_vars, alive, port_vars, comms, nextComm, call_vars, subs>>

\* a loop that goes back into exec_() as long as there is no reply
WaitStep_never_gives_up(f) ==
    IF f.call \in reply_inbox THEN "replied" ELSE "again"

\* a loop that looks at the kernel before the reply
WaitStep_liveness_first(f) ==
    IF ~alive THEN "KernelDead"
    ELSE IF f.call \in reply_inbox THEN "replied"
    ELSE IF f.timer THEN "again"
    ELSE "Timeout"

\* the loop without line 261: it gives up whenever exec_() returns
WaitStep_timer_ignored(f) ==
    IF f.call \in reply_inbox THEN "replied"
    ELSE IF ~alive THEN "KernelDead"
    ELSE "Timeout"

\* the loop of _wait once wait_loop.exec_() has returned (lines 260-275):
\* the condition first, then the timer; with the timer still active the
\* loop runs again, and once it has fired the kernel is looked at
WaitStep(f) ==
    IF f.call \in reply_inbox THEN "replied"
    ELSE IF f.timer THEN "again"
    ELSE IF ~alive THEN "KernelDead"
    ELSE "Timeout"

\* an exit that leaves kernel_died connected
Disconnect_reply_only(s) == [reply |-> s.reply - 1, died |-> s.died]

\* both exits of the loop disconnect the reply signal and kernel_died
\* (lines 262-264 and 273-275)
Disconnect(s) == [reply |-> s.reply - 1, died |-> s.died - 1]

\* line 270: wait_loop.exec_() again
WaitAgain ==
    /\ stack # <<>>
    /\ Top.quit
    /\ WaitStep(Top) = "again"
    /\ stack' = [stack EXCEPT ![Len(stack)].quit = FALSE]
    /\ last' = Report("wait_again")
    /\ UNCHANGED <<client_vars, alive, port_vars, comms, nextComm, call_vars, subs>>

\* the innermost wait ends, and with it the blocking call: the reply is
\* popped, the finally clause of comm_channel_manager restores the lanes
WaitEnd ==
    LET f == Top
        w == WaitStep(f)
        ex == Exit(comms, f.ids)
    IN
    /\ stack # <<>>
    /\ f.quit
    /\ w # "again"
    /\ stack' = SubSeq(stack, 1, Len(stack) - 1)
    /\ subs' = Disconnect(subs)
    /\ reply_inbox' = reply_inbox \ {f.call}
    /\ comms' = ex.comms
    /\ last' = [Report("wait_end") EXCEPT
                   !.wait = w,
                   !.outcome = IF ex.err THEN "KeyError"
                               ELSE IF w = "replied" THEN "returned" ELSE w]
    /\ UNCHANGED <<client_vars, alive, port_vars, nextComm, nextCall,
                   reply_waitlist, awaiting>>

\* ------------------------------------------------------------ incoming calls
\* CommBase._handle_remote_call for a call that came in on comm c:
\* on_incoming_call applies the advertised port (lines 168-172), the
\* handler runs, and _set_call_return_value (lines 124-130) sends the reply
\* inside comm_channel_manager(calling_comm_id, not connected)
on_incoming_call(port, tunnel_ok, local_port, send_reply, c) ==
    LET sp == _set_comm_port(port, tunnel_ok, local_port)
        queue_message == (sp.ch = None)
        en == Enter(comms, sp.ch, c, queue_message)
        snd == IF send_reply THEN _send_message(en.comms, "remote_call_reply", c)
                             ELSE [err |-> FALSE, sent |-> <<>>]
        ex == Exit(en.comms, en.ids)
        base == [rcp |-> sp.rcp, cp |-> sp.cp, ch |-> sp.ch, built |-> sp.built,
                 events |-> sp.events, comms |-> comms, sent |-> <<>>,
                 reneg |-> 0, queued |-> queue_message, outcome |-> "returned"]
    IN  IF sp.err THEN [base EXCEPT !.outcome = "TunnelError"]
        ELSE IF en.status = "KeyError" THEN [base EXCEPT !.outcome = "KeyError"]
        ELSE IF snd.err THEN [base EXCEPT !.outcome = "CommError", !.comms = ex.comms]
        ELSE [base EXCEPT !.sent = snd.sent, !.comms = ex.comms]

IncomingCall(port, tunnel_ok, local_port, send_reply, c) ==
    LET r == on_incoming_call(port, tunnel_ok, local_port, send_reply, c) IN
    /\ kernel_client = "client"
    /\ c \in Registered(comms)
    /\ remote_comm_port' = r.rcp
    /\ comm_port' = r.cp
    /\ comm_channel' = r.ch
    /\ comms' = r.comms
    /\ last' = [Report("incoming_call") EXCEPT
                   !.built = r.built, !.events = r.events,
                   !.outcome = r.outcome]
    /\ UNCHANGED <<client_vars, alive, nextComm>>
    /\ UNCHANGED <<call_vars, wait_vars>>

\* ------------------------------------------------------------ remote errors
\* a relay that returns after the first line
_async_error_first_only(lines) ==
    IF lines = <<>> THEN <<>>
    ELSE <<[text |-> Head(lines), is_traceback |-> TRUE]>>

\* the loop of lines 289-292: one sig_exception_occurred per line
RECURSIVE relay(_, _)
relay(lines, emitted) ==
    IF lines = <<>> THEN emitted
    ELSE relay(Tail(lines),
               Append(emitted, [text |-> Head(lines), is_traceback |-> TRUE]))

\* _async_error(error_wrapper): the signals emitted, in order
_async_error(lines) == relay(lines, <<>>)

\* the kernel calls the handler registered at line 47
AsyncError(lines) ==
    /\ kernel_client = "client"
    /\ comms # <<>>
    /\ last' = [Report("_async_error") EXCEPT !.emitted = _async_error(lines)]
    /\ UNCHANGED <<client_vars, alive, port_vars, comms, nextComm>>
    /\ UNCHANGED <<call_vars, wait_vars>>

\* ------------------------------------------------------------ specifications
\* the handlers that read or write the comm port state
NextPort ==
    \/ open_comm(MaxComms + 1)
    \/ \E port \in Ports \cup {None}, ok \in TunnelOutcomes, lp \in RandomPorts :
          SetCommPort(port, ok, lp)
    \/ \E port \in Ports \cup {None}, ok \in TunnelOutcomes, lp \in RandomPorts,
          send_reply \in BOOLEAN, c \in CommIds :
          IncomingCall(port, ok, lp, send_reply, c)
    \/ \E c \in KnownTargets : close(c)
    \/ \E c \in KnownTargets, queue_message \in BOOLEAN :
          ChannelScope(c, queue_message)
    \/ \E c \in KnownTargets : remove(c)

NextOf(max_comms, max_calls) ==
    \/ open_comm(max_comms)
    \* (a call that wants no reply makes the same transitions)
    \/ \E port \in Ports \cup {None}, ok \in TunnelOutcomes, lp \in RandomPorts,
          c \in CommIds :
          IncomingCall(port, ok, lp, TRUE, c)
    \/ \E c \in KnownTargets : close(c)
    \/ \E c \in KnownTargets : remove(c)
    \/ KernelDied
    \/ KernelBack
    \/ \E c \in KnownTargets, interrupt \in BOOLEAN :
          RemoteCall(c, FALSE, interrupt, alive, max_calls)
    \/ \E c \in KnownTargets, interrupt \in BOOLEAN, a2 \in BOOLEAN :
          RemoteCall(c, TRUE, interrupt, a2, max_calls)
    \/ \E c \in CallIds : ReplyArrives(c)
    \/ \E i \in 1..MaxDepth : TimerFires(i)
    \/ WaitAgain
    \/ WaitEnd

Next == NextOf(MaxComms, MaxCalls)
NextWide == NextOf(MaxComms + 1, MaxCalls + 1)

Spec == Init /\ [][Next]_vars
SpecWide == Init /\ [][NextWide]_vars
SpecPort == InitPort /\ [][NextPort]_vars

\* the armed single-shot timer of a wait fires, and the Qt thread goes on
\* with the loop of _wait once wait_loop.exec_() has returned
Fairness ==
    /\ WF_vars(\E i \in 1..MaxDepth : TimerFires(i))
    /\ WF_vars(WaitAgain)
    /\ WF_vars(WaitEnd)

\* a comm on which the kernel reports its errors
NextError ==
    \/ open_comm(MaxComms)
    \/ \E w \in Wrappers : AsyncError(w)

SpecError == Init /\ [][NextError]_vars

SpecFair == Init /\ [][Next]_vars /\ Fairness

\* ------------------------------------------------------------ properties
Opened == kernel_client = "client"
CallMsgs(sent) == SelectSeq(sent, LAMBDA m : m.type = "remote_call")

\* C1: whenever no comm_channel_manager scope is active (no blocking call
\* is inside its wait), every registered comm is bound to the shell channel
C1_RestoredOutsideScopes ==
    stack = <<>> => \A i \in DOMAIN comms : comms[i].chan = shell_channel

C3_BuildsWhenNoChannel ==
    (Opened /\ comm_channel = None) =>
        \A p \in Ports, lp \in RandomPorts :
            LET r == _set_comm_port(p, TRUE, lp) IN
            r.built = 1 /\ r.events = 1 /\ r.ch # None

\* C4: a call issued while the kernel is not alive sends nothing, asks for
\* no renegotiation and starts no wait; a blocking one raises "Kernel is
\* dead", another one is dropped with one log entry and raises nothing
C4_DeadKernelFirst ==
    (Opened /\ ~alive) =>
        \A c \in KnownTargets, blocking \in BOOLEAN, interrupt \in BOOLEAN, a2 \in BOOLEAN :
            LET r == _get_call_return_value(c, blocking, interrupt, a2) IN
            /\ r.sent = <<>> /\ r.reneg = 0 /\ ~r.push /\ r.wait = "none"
            /\ r.comms = comms
            /\ blocking => r.outcome = "KernelDead"
            /\ ~blocking => r.outcome = "dropped" /\ r.logs = 1

\* a blocking call has just failed at the liveness check
C4_Witness ==
    /\ last.op = "remote_call" /\ last.outcome = "KernelDead"
    /\ last.wait = "none" /\ ~alive

\* what C5 says of any call with interrupt or blocking set, issued to a live
\* kernel with the comm channel disconnected: one renegotiation request; a
\* blocking call raises CommError and its message is not sent
C5_Common(r, blocking) ==
    /\ r.reneg = 1
    /\ blocking => /\ r.outcome = "CommError"
                   /\ CallMsgs(r.sent) = <<>>
                   /\ ~r.push /\ r.comms = comms

C6_FailurePolicy ==
    (Opened /\ alive) =>
        \A c \in KnownTargets, blocking \in BOOLEAN, interrupt \in BOOLEAN, a2 \in BOOLEAN :
            LET r == _get_call_return_value(c, blocking, interrupt, a2) IN
            /\ ~blocking => /\ r.outcome \in {"returned", "swallowed"}
                            /\ r.outcome = "swallowed" => r.logs = 1
                            /\ r.outcome = "returned" => r.logs = 0
            /\ (blocking /\ ~is_open(comms, c)) =>
                   r.outcome \in {"CommError", "KeyError"}

\* C7: right after kernel_died reached a wait that has no reply, the wait
\* does not go back into wait_loop.exec_()
C7_DeathEndsWait ==
    [][(last.op = "kernel_died" /\ stack # <<>> /\ Top.call \notin reply_inbox)
          => last'.op # "wait_again"]_vars

\* C8: a wait that has no reply ends only once its timer has fired, and
\* then with Timeout when the kernel is alive (the call's own id being in
\* the set the message was made from) and with "Kernel is dead" when not
C8_TimeoutOutcome ==
    \A i \in DOMAIN stack :
        LET f == stack[i]
            w == WaitStep(f)
        IN  f.call \notin reply_inbox =>
                /\ w \in {"Timeout", "KernelDead"} <=> ~f.timer
                /\ w = "Timeout" <=> (~f.timer /\ alive)
                /\ w = "Timeout" => f.call \in f.msg

\* a wait has just ended with Timeout
C8_Witness == last.op = "wait_end" /\ last.wait = "Timeout" /\ alive

\* C9: the ids a Timeout carries are the ids in the reply waitlist when the
\* Timeout is raised
C9_TimeoutIdsCurrent ==
    (stack # <<>> /\ Top.quit /\ WaitStep(Top) = "Timeout") =>
        Top.msg = reply_waitlist

\* C10: the connections to wait_loop.quit that are alive are those of the
\* waits in progress, one to the reply signal and one to kernel_died each;
\* every wait that has ended has removed its own
C10_NoDanglingSubscriptions ==
    /\ subs.reply = Len(stack)
    /\ subs.died = Len(stack)

\* a wait has ended and no wait is left
C10_Witness ==
    /\ last.op = "wait_end" /\ stack = <<>>
    /\ subs.reply = 0 /\ subs.died = 0

\* C11: with the timer of a wait firing, every wait in progress ends, and a
\* wait ends with a reply, with Timeout or with "Kernel is dead", whatever
\* handlers run in between
C11_WaitTerminates ==
    /\ [](last.op = "wait_end" => last.wait \in {"replied", "Timeout", "KernelDead"})
    /\ \A c \in CallIds :
          (\E i \in DOMAIN stack : stack[i].call = c)
              ~> ~(\E i \in DOMAIN stack : stack[i].call = c)

\* a wait that saw the kernel die has ended with "Kernel is dead"
C11_Witness ==
    /\ last.op = "wait_end" /\ last.wait = "KernelDead"
    /\ ~alive /\ stack = <<>>

\* C12: the reply to an incoming call is always sent: no CommError, no
\* renegotiation request; on the shell channel when the comm channel is
\* disconnected, on the comm channel when it is connected
C12_ReplyLane ==
    Opened =>
        \A c \in Registered(comms) :
            LET r == on_incoming_call(None, TRUE, None, TRUE, c) IN
            /\ r.outcome = "returned" /\ r.reneg = 0
            /\ Len(r.sent) = 1 /\ r.sent[1].type = "remote_call_reply"
            /\ r.sent[1].comm = c
            /\ r.sent[1].lane = IF comm_channel_connected THEN comm_channel
                                                          ELSE shell_channel

\* C13: a scope that is not queued, entered with the comm channel
\* disconnected, asks once for the comm configuration and raises CommError;
\* its body does not run and no comm is rebound, in the scope or after it
C13_NotConnectedScope ==
    (Opened /\ ~comm_channel_connected) =>
        \A c \in KnownTargets :
            LET r == comm_channel_manager(c, FALSE) IN
            /\ r.outcome = "CommError" /\ r.reneg = 1
            /\ ~r.body
            /\ r.inside = comms /\ r.comms = comms
            /\ \A k \in DOMAIN r.sent : r.sent[k].type = "_send_comm_config"

\* a scope on an open comm has just failed on the disconnected comm channel
C13_Witness ==
    /\ last.op = "comm_channel_manager" /\ last.outcome = "CommError"
    /\ ~comm_channel_connected /\ comms # <<>>

\* C14: behind an ssh tunnel, an application of a new port whose tunnel
\* fails raises, builds no channel, emits no signal and leaves
\* client.comm_channel and client.comm_port as they were
C14_TunnelFailure ==
    /\ (Opened /\ ssh_parameters) =>
          \A p \in Ports \ {remote_comm_port}, lp \in LocalPorts :
              LET r == _set_comm_port(p, FALSE, lp) IN
              /\ r.err /\ r.built = 0 /\ r.events = 0
              /\ r.ch = comm_channel /\ r.cp = comm_port
    /\ (last.op = "_set_comm_port" /\ last.outcome = "TunnelError") =>
          last.built = 0 /\ last.events = 0

\* the tunnel has just failed with a channel in place, which is still there
C14_Witness ==
    /\ last.op = "_set_comm_port" /\ last.outcome = "TunnelError"
    /\ ssh_parameters /\ comm_channel # None /\ comm_port = comm_channel

\* C19: after the tunnel failed for a port, remote_comm_port is not that
\* port, and applying the same port again, the tunnel opening, builds the
\* channel
C19_FailedPortRetried ==
    (last.op = "_set_comm_port" /\ last.outcome = "TunnelError") =>
        /\ remote_comm_port # last.port
        /\ \A lp \in RandomPorts \ {comm_port} :
              LET r == _set_comm_port(last.port, TRUE, lp) IN
              r.built = 1 /\ r.ch # None

\* C15: for an error of N formatted lines, _async_error emits N
\* sig_exception_occurred signals, the i-th with the i-th line as text and
\* is_traceback true, and what the handler has emitted is such a relay
C15_ErrorRelay ==
    /\ \A w \in Wrappers :
          LET e == _async_error(w) IN
          /\ Len(e) = Len(w)
          /\ \A i \in 1..Len(w) : e[i] = [text |-> w[i], is_traceback |-> TRUE]
    /\ last.op = "_async_error" =>
          /\ last.outcome = "returned"
          /\ \E w \in Wrappers :
                /\ Len(last.emitted) = Len(w)
                /\ \A i \in 1..Len(w) : last.emitted[i].text = w[i]

\* an error of several different lines has been relayed
C15_Witness ==
    /\ last.op = "_async_error" /\ Len(last.emitted) = 3
    /\ last.emitted[1].text = "Traceback" /\ last.emitted[2].text = "File"
    /\ last.emitted[3].text = "ValueError"

\* C16: close first shuts the comm channel down (a shutdown_request on it
\* per registered comm, client.comm_channel emptied) and then sends one
\* comm_close per targeted comm; after it the comm channel is disconnected,
\* and it starts no wait
C16_CloseOrder ==
    /\ [](Opened =>
          \A c \in KnownTargets :
              LET r == close_result(c)
                  down == SelectSeq(r.sent, LAMBDA m : m.type = "shutdown_request")
                  notice == SelectSeq(r.sent, LAMBDA m : m.type = "comm_close")
                  ids == get_comm_id_list(comms, c)
              IN  /\ r.ch = None
                  /\ r.sent = down \o notice
                  /\ Len(down) = IF comm_channel_connected THEN Len(comms) ELSE 0
                  /\ \A k \in DOMAIN down :
                        down[k].comm = comms[k].id /\ down[k].lane = comm_channel
                  /\ r.outcome = "returned" =>
                        /\ Len(notice) = Len(ids)
                        /\ \A k \in DOMAIN ids : notice[k].comm = ids[k])
    /\ [][last'.op = "close" =>
              /\ comm_channel' = None
              /\ stack' = stack /\ subs' = subs]_vars

\* close has returned during a blocking wait, the comm channel is gone
C16_Witness ==
    /\ last.op = "close" /\ last.outcome = "returned"
    /\ comms # <<>> /\ comm_port # None /\ ~comm_channel_connected
    /\ stack # <<>>

\* C17: remove deletes the targeted comms from the table (all of them for
\* no id) and nothing else, sends nothing, and leaves the comm channel, the
\* ports and the comms that stay as they were
C17_RemoveLocal ==
    /\ [](Opened =>
          \A c \in KnownTargets :
              LET r == remove_result(c)
                  ids == get_comm_id_list(comms, c)
                  gone == {ids[k] : k \in DOMAIN ids}
              IN  /\ r.sent = <<>>
                  /\ r.outcome = "returned" =>
                        /\ r.comms = SelectSeq(comms, LAMBDA x : x.id \notin gone)
                        /\ Registered(r.comms) = Registered(comms) \ gone
                  /\ r.outcome # "returned" => r.comms = comms
                  /\ c = None => r.comms = <<>>)
    /\ [][last'.op = "remove" =>
              /\ UNCHANGED port_vars
              /\ UNCHANGED <<call_vars, wait_vars>>
              /\ \A i \in DOMAIN comms' : \E j \in DOMAIN comms : comms'[i] = comms[j]]_vars

\* one of two comms has been removed with the comm channel connected: the
\* other comm and the channel are still there
C17_Witness ==
    /\ last.op = "remove" /\ last.outcome = "returned"
    /\ nextComm = 3 /\ Len(comms) = 1
    /\ comm_channel_connected /\ remote_comm_port # None

\* C18: a wait whose reply is in the inbox ends with the reply, whether the
\* kernel is alive or not and whether its timer has fired or not; no wait
\* has ended with a failure while its reply was there
C18_ReplyWins ==
    /\ \A i \in DOMAIN stack :
          stack[i].call \in reply_inbox => WaitStep(stack[i]) = "replied"
    /\ [][(last'.op = "wait_end" /\ stack # <<>> /\ Top.call \in reply_inbox)
              => last'.wait = "replied"]_vars

\* a wait has ended with its reply although the kernel had died
C18_Witness ==
    /\ last.op = "wait_end" /\ last.wait = "replied"
    /\ ~alive /\ stack = <<>>

\* C20: while a blocking call is waiting inside its scope, every comm the
\* scope rebound that is still registered is bound to a comm channel, not
\* to the shell channel
C20_OuterBindingKept ==
    \A i \in DOMAIN stack : \A k \in DOMAIN stack[i].ids :
        stack[i].ids[k] \in Registered(comms) =>
            ChanOf(comms, stack[i].ids[k]) # shell_channel
====
